---- MODULE Spec2Model ----
(***************************************************************************)
(* Model of the two operator scripts of lifeguard:                         *)
(*   scripts/dev_up.py    startup sequencer                                *)
(*   scripts/dev_down.py  shutdown sequencer                               *)
(* Both run on one machine (one PATH).  Every external command is an       *)
(* input: its return code and, for `kind get clusters`, its standard       *)
(* output are chosen by the environment.                                   *)
(***************************************************************************)
EXTENDS Integers, Sequences, FiniteSets, TLC

VARIABLES installed, upc, ucmds, ulog, uexit, sigint, dpc, dcmds, dlog, dexit

vars == <<installed, upc, ucmds, ulog, uexit, sigint, dpc, dcmds, dlog, dexit>>
upVars == <<upc, ucmds, ulog, uexit, sigint>>
downVars == <<dpc, dcmds, dlog, dexit>>

(* ---------------- bounds ---------------- *)
\* return codes of external commands range over 0..MaxRc
MaxRc == 2
\* at most this many clusters appear in the output of `kind get clusters`
MaxClusters == 2

(* ---------------- values ---------------- *)
RetCodes == 0..MaxRc
NoExit == -1      \* the process has not terminated yet
Pending == -1     \* a launched command that has not returned yet
NotFound == -2    \* subprocess.run raised: the executable could not be launched
Tools == {"docker", "kind", "kubectl", "tilt", "bash", "pkill"}
Prereqs == <<"docker", "kind", "kubectl", "tilt">>

\* command lines
DockerInfo == "docker info"
SetupScript == "bash setup_kind_cluster.sh"
UseContext == "kubectl config use-context kind-lifeguard-test"
TiltUp == "tilt up"
TiltDown == "tilt down"
Pkill == "pkill -f 'tilt up'"
KindDelete == "kind delete cluster --name lifeguard-test"
KindGet == "kind get clusters"

\* text is a sequence of tokens; a cluster name is a piece of text
Target == <<"lifeguard-test">>
ClusterNames == <<Target, <<"lifeguard-test", "-2">>, <<"kind">>>>

RECURSIVE Render(_)
\* the standard output of `kind get clusters`: one name per line
Render(names) ==
    IF names = <<>> THEN <<>>
    ELSE Head(names) \o <<"\n">> \o Render(Tail(names))

RECURSIVE Pick(_, _)
\* the names of ClusterNames selected by the set of indices S, in order
Pick(i, S) ==
    IF i > Len(ClusterNames) THEN <<>>
    ELSE (IF i \in S THEN <<ClusterNames[i]>> ELSE <<>>) \o Pick(i + 1, S)

Listings ==
    {Render(Pick(1, S)) : S \in {T \in SUBSET (1..Len(ClusterNames)) : Cardinality(T) <= MaxClusters}}

\* variant: whole-text equality instead of substring search
Contains_exact(hay, needle) == hay = needle

\* Python's `needle in hay` on text
Contains(hay, needle) ==
    \E i \in 0..(Len(hay) - Len(needle)) : SubSeq(hay, i + 1, i + Len(needle)) = needle

(* ---------------- logging ---------------- *)
log_info(msg) == <<"INFO", msg>>
log_error(msg) == <<"ERROR", msg>>
log_warn(msg) == <<"WARN", msg>>
print(msg) == <<"OUT", msg>>
\* the interpreter's report of an uncaught exception
traceback(msg) == <<"TRACEBACK", msg>>

NotInstalledMsg(cmd) == <<cmd, "is not installed. Please install it first.">>

\* shutil.which
which(cmd) == cmd \in installed

\* the executable of a command line
ExeOf(cmd) ==
    CASE cmd = DockerInfo -> "docker"
      [] cmd = SetupScript -> "bash"
      [] cmd = UseContext -> "kubectl"
      [] cmd = TiltUp -> "tilt"
      [] cmd = TiltDown -> "tilt"
      [] cmd = Pkill -> "pkill"
      [] cmd = KindDelete -> "kind"
      [] cmd = KindGet -> "kind"

HasCmd(cmds, c) == \E i \in 1..Len(cmds) : cmds[i].cmd = c
RcOf(cmds, c) == LET i == CHOOSE j \in 1..Len(cmds) : cmds[j].cmd = c IN cmds[i].rc
OutOf(cmds, c) == LET i == CHOOSE j \in 1..Len(cmds) : cmds[j].cmd = c IN cmds[i].out
HasLog(log, e) == \E i \in 1..Len(log) : log[i] = e
HasLevel(log, lvl) == \E i \in 1..Len(log) : log[i][1] = lvl

(* ======================= dev_up.py ======================= *)

UpSteps == {"main", "check_docker", "check_kind", "check_kubectl", "check_tilt",
            "docker_info", "docker_info_wait", "start_kind", "start_kind_wait",
            "set_context", "set_context_wait", "start_tilt", "start_tilt_wait"}

\* sys.exit(code), and the end of the script when main returns
UpExit(code, entries) ==
    /\ ulog' = ulog \o entries
    /\ uexit' = code
    /\ upc' = "done"

\* subprocess.run(cmd): the child is started, or the launch raises
UpLaunch(at, waitpc, cmd, entries) ==
    /\ upc = at
    /\ IF which(ExeOf(cmd))
       THEN /\ ucmds' = Append(ucmds, [cmd |-> cmd, rc |-> Pending])
            /\ ulog' = ulog \o entries
            /\ upc' = waitpc
            /\ uexit' = uexit
       ELSE /\ ucmds' = Append(ucmds, [cmd |-> cmd, rc |-> NotFound])
            /\ UpExit(1, entries \o <<traceback("FileNotFoundError")>>)
    /\ UNCHANGED <<installed, sigint, downVars>>

\* the child returned rc
UpReturned(rc) == [ucmds EXCEPT ![Len(ucmds)].rc = rc]

main_begin ==
    /\ upc = "main"
    /\ ulog' = Append(ulog, log_info("Starting Lifeguard development environment (Kind)..."))
    /\ upc' = "check_docker"
    /\ UNCHANGED <<installed, ucmds, uexit, sigint, downVars>>

\* variant: the missing tool is reported but the script carries on
check_command_continues(cmd, at, nxt) ==
    /\ upc = at
    /\ IF ~which(cmd)
       THEN /\ ulog' = Append(ulog, log_error(NotInstalledMsg(cmd)))
            /\ upc' = nxt
            /\ uexit' = uexit
       ELSE /\ upc' = nxt
            /\ UNCHANGED <<ulog, uexit>>
    /\ UNCHANGED <<installed, ucmds, sigint, downVars>>

check_command(cmd, at, nxt) ==
    /\ upc = at
    /\ IF ~which(cmd)
       THEN UpExit(1, <<log_error(NotInstalledMsg(cmd))>>)
       ELSE /\ upc' = nxt
            /\ UNCHANGED <<ulog, uexit>>
    /\ UNCHANGED <<installed, ucmds, sigint, downVars>>

check_docker_run ==
    UpLaunch("docker_info", "docker_info_wait", DockerInfo,
             <<log_info("Checking Docker daemon...")>>)

\* variant: an unreachable daemon is reported but the script carries on
check_docker_ret_continues ==
    /\ upc = "docker_info_wait"
    /\ \E rc \in RetCodes :
         /\ ucmds' = UpReturned(rc)
         /\ ulog' = ulog \o (IF rc # 0
                             THEN <<log_error("Docker daemon is not running"),
                                    print("Please start Docker Desktop and try again")>>
                             ELSE <<log_info("Docker daemon is running")>>)
         /\ upc' = "start_kind"
         /\ uexit' = uexit
    /\ UNCHANGED <<installed, sigint, downVars>>

check_docker_ret ==
    /\ upc = "docker_info_wait"
    /\ \E rc \in RetCodes :
         /\ ucmds' = UpReturned(rc)
         /\ IF rc # 0
            THEN UpExit(1, <<log_error("Docker daemon is not running"),
                             print("Please start Docker Desktop and try again")>>)
            ELSE /\ ulog' = Append(ulog, log_info("Docker daemon is running"))
                 /\ upc' = "start_kind"
                 /\ uexit' = uexit
    /\ UNCHANGED <<installed, sigint, downVars>>

start_kind_run ==
    UpLaunch("start_kind", "start_kind_wait", SetupScript,
             <<log_info("Setting up Kind cluster...")>>)

\* variant: a failed bootstrap is reported but the script carries on
start_kind_ret_continues ==
    /\ upc = "start_kind_wait"
    /\ \E rc \in RetCodes :
         /\ ucmds' = UpReturned(rc)
         /\ ulog' = ulog \o (IF rc # 0 THEN <<log_error("Failed to setup Kind cluster")>> ELSE <<>>)
         /\ upc' = "set_context"
         /\ uexit' = uexit
    /\ UNCHANGED <<installed, sigint, downVars>>

start_kind_ret ==
    /\ upc = "start_kind_wait"
    /\ \E rc \in RetCodes :
         /\ ucmds' = UpReturned(rc)
         /\ IF rc # 0
            THEN UpExit(1, <<log_error("Failed to setup Kind cluster")>>)
            ELSE /\ upc' = "set_context"
                 /\ UNCHANGED <<ulog, uexit>>
    /\ UNCHANGED <<installed, sigint, downVars>>

set_kubeconfig_context_run ==
    UpLaunch("set_context", "set_context_wait", UseContext,
             <<log_info("Setting kubeconfig context...")>>)

\* variant: a failed context switch is fatal
set_kubeconfig_context_ret_fatal ==
    /\ upc = "set_context_wait"
    /\ \E rc \in RetCodes :
         /\ ucmds' = UpReturned(rc)
         /\ IF rc # 0
            THEN UpExit(1, <<log_error("Could not set kind context")>>)
            ELSE /\ ulog' = Append(ulog, log_info("Context set to kind-lifeguard-test"))
                 /\ upc' = "start_tilt"
                 /\ uexit' = uexit
    /\ UNCHANGED <<installed, sigint, downVars>>

set_kubeconfig_context_ret ==
    /\ upc = "set_context_wait"
    /\ \E rc \in RetCodes :
         /\ ucmds' = UpReturned(rc)
         /\ ulog' = Append(ulog,
                IF rc # 0
                THEN log_info("Warning: Could not set kind context, using current context")
                ELSE log_info("Context set to kind-lifeguard-test"))
         /\ upc' = "start_tilt"
         /\ uexit' = uexit
    /\ UNCHANGED <<installed, sigint, downVars>>

start_tilt_run ==
    UpLaunch("start_tilt", "start_tilt_wait", TiltUp,
             <<log_info("Starting Tilt..."),
               log_info("Tilt UI: http://localhost:10350"),
               log_info("PostgreSQL: localhost:5432 (via Tilt port forward)")>>)

\* variant: subprocess.run(..., check=True), a non-zero code raises
start_tilt_ret_checked ==
    /\ upc = "start_tilt_wait"
    /\ \E rc \in RetCodes :
         /\ ucmds' = UpReturned(rc)
         /\ IF rc # 0
            THEN UpExit(1, <<traceback("CalledProcessError")>>)
            ELSE UpExit(0, <<>>)
    /\ UNCHANGED <<installed, sigint, downVars>>

\* subprocess.run(..., check=False) returns; main returns; the script ends
start_tilt_ret ==
    /\ upc = "start_tilt_wait"
    /\ \E rc \in RetCodes :
         /\ ucmds' = UpReturned(rc)
         /\ UpExit(0, <<>>)
    /\ UNCHANGED <<installed, sigint, downVars>>

\* variant: the notice does not mention the cluster
ShutdownNotice_no_cluster ==
    <<print(""),
      log_info("Shutting down gracefully..."),
      log_info("Tilt has been stopped"),
      print(""),
      log_info("Shutdown complete")>>

ShutdownNotice ==
    <<print(""),
      log_info("Shutting down gracefully..."),
      log_info("Tilt has been stopped"),
      log_info("Kind cluster is still running (use 'just dev-down' to stop it)"),
      print(""),
      log_info("Shutdown complete")>>

\* variant: the handler wraps only the foregrounded tilt up; elsewhere the
\* interrupt is uncaught and the interpreter ends with status 130
KeyboardInterrupt_tilt_only ==
    /\ upc \in UpSteps
    /\ sigint' = TRUE
    /\ IF upc = "start_tilt_wait"
       THEN UpExit(0, ShutdownNotice)
       ELSE UpExit(130, <<traceback("KeyboardInterrupt")>>)
    /\ UNCHANGED <<installed, ucmds, downVars>>

\* the operator's interrupt reaches the script while main() runs
KeyboardInterrupt ==
    /\ upc \in UpSteps
    /\ sigint' = TRUE
    /\ UpExit(0, ShutdownNotice)
    /\ UNCHANGED <<installed, ucmds, downVars>>

(* ======================= dev_down.py ======================= *)

\* run_command(cmd) with cmd a list: the result, or NotFound when the launch raises
run_command(cmd, rc, out) ==
    IF which(ExeOf(cmd))
    THEN [cmd |-> cmd, rc |-> rc, out |-> out]
    ELSE [cmd |-> cmd, rc |-> NotFound, out |-> <<>>]

\* run_command(cmd) with cmd a string: the shell runs it, 127 when not found
run_shell(cmd, rc, out) ==
    IF which(ExeOf(cmd))
    THEN [cmd |-> cmd, rc |-> rc, out |-> out]
    ELSE [cmd |-> cmd, rc |-> 127, out |-> <<>>]

\* an exception nobody catches: traceback, exit status 1
DownCrash(results, entries) ==
    /\ dcmds' = dcmds \o results
    /\ dlog' = dlog \o entries \o <<traceback("FileNotFoundError")>>
    /\ dexit' = 1
    /\ dpc' = "done"

DownStep(results, entries, nxt) ==
    /\ dcmds' = dcmds \o results
    /\ dlog' = dlog \o entries
    /\ dexit' = dexit
    /\ dpc' = nxt

down_main_begin ==
    /\ dpc = "main"
    /\ DownStep(<<>>, <<log_info("Stopping Lifeguard development environment...")>>, "stop_tilt")
    /\ UNCHANGED <<installed, upVars>>

\* variant: pkill runs whatever tilt down returned
stop_tilt_always_pkill ==
    /\ dpc = "stop_tilt"
    /\ \E rc1 \in RetCodes, rc2 \in RetCodes :
         LET r1 == run_command(TiltDown, rc1, <<>>)
             r2 == run_command(Pkill, rc2, <<>>)
             l0 == <<log_info("Stopping Tilt...")>>
         IN  IF r1.rc = NotFound THEN DownCrash(<<r1>>, l0)
             ELSE IF r2.rc = NotFound THEN DownCrash(<<r1, r2>>, l0)
             ELSE IF r1.rc = 0 \/ r2.rc = 0
             THEN DownStep(<<r1, r2>>, l0 \o <<log_info("Tilt stopped")>>, "stop_kind")
             ELSE DownStep(<<r1, r2>>,
                           l0 \o <<log_warn("No Tilt processes found (or already stopped)")>>,
                           "stop_kind")
    /\ UNCHANGED <<installed, upVars>>

stop_tilt ==
    /\ dpc = "stop_tilt"
    /\ \E rc1 \in RetCodes, rc2 \in RetCodes :
         LET r1 == run_command(TiltDown, rc1, <<>>)
             r2 == run_command(Pkill, rc2, <<>>)
             l0 == <<log_info("Stopping Tilt...")>>
         IN  IF r1.rc = NotFound THEN DownCrash(<<r1>>, l0)
             ELSE IF r1.rc = 0
             THEN DownStep(<<r1>>, l0 \o <<log_info("Tilt stopped")>>, "stop_kind")
             ELSE IF r2.rc = NotFound THEN DownCrash(<<r1, r2>>, l0)
             ELSE IF r2.rc = 0
             THEN DownStep(<<r1, r2>>, l0 \o <<log_info("Tilt stopped (via pkill)")>>, "stop_kind")
             ELSE DownStep(<<r1, r2>>,
                           l0 \o <<log_warn("No Tilt processes found (or already stopped)")>>,
                           "stop_kind")
    /\ UNCHANGED <<installed, upVars>>

stop_kind ==
    /\ dpc = "stop_kind"
    /\ \E rc1 \in RetCodes, rc2 \in RetCodes, out \in Listings :
         LET r1 == run_command(KindDelete, rc1, <<>>)
             cluster_check == run_shell(KindGet, rc2, out)
             l0 == <<log_info("Stopping Kind cluster...")>>
         IN  IF r1.rc = NotFound THEN DownCrash(<<r1>>, l0)
             ELSE IF r1.rc = 0
             THEN DownStep(<<r1>>, l0 \o <<log_info("Kind cluster deleted")>>, "main_end")
             ELSE IF Contains(cluster_check.out, Target)
             THEN DownStep(<<r1, cluster_check>>,
                           l0 \o <<log_warn("Cluster deletion had issues, but continuing with cleanup")>>,
                           "main_end")
             ELSE DownStep(<<r1, cluster_check>>,
                           l0 \o <<log_info("Cluster already deleted or does not exist")>>,
                           "main_end")
    /\ UNCHANGED <<installed, upVars>>

\* main returns and the script ends with status 0
down_main_end ==
    /\ dpc = "main_end"
    /\ dcmds' = dcmds
    /\ dlog' = Append(dlog, log_info("Development environment stopped and cleaned up"))
    /\ dexit' = 0
    /\ dpc' = "done"
    /\ UNCHANGED <<installed, upVars>>

(* ======================= specification ======================= *)

Init ==
    /\ installed \in SUBSET Tools
    /\ upc = "main"
    /\ ucmds = <<>>
    /\ ulog = <<>>
    /\ uexit = NoExit
    /\ sigint = FALSE
    /\ dpc = "main"
    /\ dcmds = <<>>
    /\ dlog = <<>>
    /\ dexit = NoExit

Next ==
    \/ main_begin
    \/ check_command("docker", "check_docker", "check_kind")
    \/ check_command("kind", "check_kind", "check_kubectl")
    \/ check_command("kubectl", "check_kubectl", "check_tilt")
    \/ check_command("tilt", "check_tilt", "docker_info")
    \/ check_docker_run
    \/ check_docker_ret
    \/ start_kind_run
    \/ start_kind_ret
    \/ set_kubeconfig_context_run
    \/ set_kubeconfig_context_ret
    \/ start_tilt_run
    \/ start_tilt_ret
    \/ KeyboardInterrupt
    \/ down_main_begin
    \/ stop_tilt
    \/ stop_kind
    \/ down_main_end

Spec == Init /\ [][Next]_vars

(* ======================= properties ======================= *)

AllPrereqs == \A i \in 1..Len(Prereqs) : Prereqs[i] \in installed
MissingPrereq == ~AllPrereqs
FirstMissing ==
    Prereqs[CHOOSE i \in 1..Len(Prereqs) :
              /\ Prereqs[i] \notin installed
              /\ \A j \in 1..(i - 1) : Prereqs[j] \in installed]
Returned(cmds, c) == HasCmd(cmds, c) /\ RcOf(cmds, c) \in RetCodes
Failed(cmds, c) == HasCmd(cmds, c) /\ RcOf(cmds, c) > 0
StillRunningMsg == log_info("Kind cluster is still running (use 'just dev-down' to stop it)")
TiltStoppedMsg == log_info("Tilt has been stopped")
NoTiltWarn == log_warn("No Tilt processes found (or already stopped)")
KindWarn == log_warn("Cluster deletion had issues, but continuing with cleanup")
KindInfo == log_info("Cluster already deleted or does not exist")
DownSuccessMsg == log_info("Development environment stopped and cleaned up")
\* the cluster name occurs in the text of a listing
ListsTarget(out) == \E i \in 1..Len(out) : out[i] = Target[1]

\* C1: when one of docker, kind, kubectl, tilt is not on PATH, dev_up.py never
\* invokes an external command, never gets past the prerequisite checks, and
\* (unless interrupted first) ends with status 1 and an error naming the
\* first missing tool.
C1_MissingToolFailsFast ==
    MissingPrereq =>
        /\ ucmds = <<>>
        /\ upc \in {"main", "check_docker", "check_kind", "check_kubectl", "check_tilt", "done"}
        /\ (upc = "done" /\ ~sigint =>
                /\ uexit = 1
                /\ ulog[Len(ulog)] = log_error(NotInstalledMsg(FirstMissing)))

C1_Witness == MissingPrereq /\ "docker" \in installed /\ upc = "done" /\ uexit = 1

\* C2: with all four tools found, a non-zero return code of `docker info`
\* ends dev_up.py with status 1, and docker info is the only command it ran:
\* no setup script, no kubectl, no tilt up.
C2_DockerDownFailsFast ==
    AllPrereqs /\ Failed(ucmds, DockerInfo) =>
        /\ upc = "done"
        /\ uexit = 1
        /\ Len(ucmds) = 1
        /\ ~HasCmd(ucmds, SetupScript)
        /\ ~HasCmd(ucmds, UseContext)
        /\ ~HasCmd(ucmds, TiltUp)

C2_Witness == AllPrereqs /\ Failed(ucmds, DockerInfo) /\ uexit = 1

\* C3: a non-zero return code of the bootstrap script ends dev_up.py with
\* status 1, and neither the context switch nor tilt up is invoked.
C3_BootstrapFailureFailsFast ==
    Failed(ucmds, SetupScript) =>
        /\ upc = "done"
        /\ uexit = 1
        /\ ~HasCmd(ucmds, UseContext)
        /\ ~HasCmd(ucmds, TiltUp)

C3_Witness == Failed(ucmds, SetupScript) /\ uexit = 1 /\ RcOf(ucmds, DockerInfo) = 0

\* C4: once the context switch has returned, with whatever return code,
\* dev_up.py does not exit with status 1; it is at the orchestrator launch or
\* beyond, and unless interrupted it does not end without having launched
\* tilt up.
C4_ContextSwitchNonFatal ==
    Returned(ucmds, UseContext) =>
        /\ uexit # 1
        /\ upc \in {"start_tilt", "start_tilt_wait", "done"}
        /\ (upc = "start_tilt" => uexit = NoExit)
        /\ (~sigint /\ upc # "start_tilt" => HasCmd(ucmds, TiltUp))

C4_Witness == Failed(ucmds, UseContext) /\ HasCmd(ucmds, TiltUp) /\ ~sigint

\* C5: an interrupt delivered while tilt up runs in the foreground ends
\* dev_up.py with status 0 and the message that the Kind cluster is still
\* running.
C5_InterruptDuringTilt ==
    sigint /\ HasCmd(ucmds, TiltUp) =>
        /\ upc = "done"
        /\ uexit = 0
        /\ HasLog(ulog, StillRunningMsg)

C5_Witness == sigint /\ HasCmd(ucmds, TiltUp) /\ RcOf(ucmds, TiltUp) = Pending /\ uexit = 0

\* C6: dev_down.py always ends with status 0 and the final success message,
\* having attempted both the orchestrator stop and the cluster deletion.
C6_ShutdownAlwaysSucceeds ==
    dpc = "done" =>
        /\ dexit = 0
        /\ HasLog(dlog, DownSuccessMsg)
        /\ HasCmd(dcmds, TiltDown)
        /\ HasCmd(dcmds, KindDelete)

\* C7: after stop_tilt, pkill was attempted exactly when tilt down returned a
\* non-zero code (never when it returned 0), and the 'No Tilt processes found'
\* warning is in the log only if both tilt down and pkill returned non-zero.
C7_PkillOnlyAsFallback ==
    dpc \notin {"main", "stop_tilt"} =>
        /\ (HasCmd(dcmds, Pkill) <=> Failed(dcmds, TiltDown))
        /\ (Returned(dcmds, TiltDown) /\ RcOf(dcmds, TiltDown) = 0 => ~HasCmd(dcmds, Pkill))
        /\ (HasLog(dlog, NoTiltWarn) => Failed(dcmds, TiltDown) /\ Failed(dcmds, Pkill))

C7_Witness == Failed(dcmds, TiltDown) /\ Failed(dcmds, Pkill) /\ HasLog(dlog, NoTiltWarn)

C9_InterruptBeforeTilt ==
    sigint /\ ~HasCmd(ucmds, TiltUp) =>
        /\ upc = "done"
        /\ uexit = 0
        /\ HasLog(ulog, TiltStoppedMsg)
        /\ HasLog(ulog, StillRunningMsg)
        /\ ~HasLevel(ulog, "TRACEBACK")

C9_Witness ==
    /\ sigint
    /\ Len(ucmds) = 2
    /\ ucmds[2] = [cmd |-> SetupScript, rc |-> Pending]
    /\ uexit = 0

\* C10: when tilt up exits by itself with any return code, dev_up.py ends
\* with status 0 and has logged no error; status 1 is reached only in runs
\* that never launched tilt up.
C10_TiltExitCodeIgnored ==
    /\ (Returned(ucmds, TiltUp) =>
          /\ upc = "done"
          /\ uexit = 0
          /\ ~HasLevel(ulog, "ERROR")
          /\ ~HasLevel(ulog, "TRACEBACK"))
    /\ (uexit = 1 => ~HasCmd(ucmds, TiltUp))

C10_Witness == Failed(ucmds, TiltUp) /\ uexit = 0 /\ ~sigint

====
